---- MODULE Spec2Model ----
(***************************************************************************)
(* Model of fractal_explorer: the View's transform algebra                 *)
(* (src/fractal_view.rs), the canvas and Controls of the UI                *)
(* (src/controls.rs) and the winit event loop that joins them              *)
(* (src/main.rs).                                                          *)
(*                                                                         *)
(* f32 values are modelled as exact rationals <<n, d>> in lowest terms     *)
(* with d > 0.  All inputs below are dyadic (window sizes are powers of    *)
(* two, scroll amounts are multiples of 20), so every product, sum and     *)
(* quotient the program forms from them is exactly representable in f32    *)
(* and the rational value is the f32 value.                                *)
(***************************************************************************)
EXTENDS Integers, Sequences, FiniteSets, TLC

\* ------------------------------------------------------------------------
\* Bounds of the model
\* ------------------------------------------------------------------------
MaxEvents == 3
MaxGestures == 3

\* ------------------------------------------------------------------------
\* Rational arithmetic (the f32 operators of the program)
\* ------------------------------------------------------------------------
Abs(n) == IF n < 0 THEN -n ELSE n

RECURSIVE GCD(_, _)
GCD(a, b) == IF b = 0 THEN a ELSE GCD(b, a % b)

Rat(n, d) ==
    LET s == IF d < 0 THEN -1 ELSE 1
        g == GCD(Abs(n), Abs(d))
    IN  <<(s * n) \div g, (s * d) \div g>>

R(n) == <<n, 1>>
RAdd(a, b) == Rat(a[1] * b[2] + b[1] * a[2], a[2] * b[2])
RNeg(a) == <<-a[1], a[2]>>
RSub(a, b) == RAdd(a, RNeg(b))
RMul(a, b) == Rat(a[1] * b[1], a[2] * b[2])
RDiv(a, b) == Rat(a[1] * b[2], a[2] * b[1])

\* cgmath::Vector2 / Vector3 as tuples of rationals
V2(x, y) == <<x, y>>
V3(x, y, z) == <<x, y, z>>
V2Scale(k, v) == <<RMul(k, v[1]), RMul(k, v[2])>>
V3Scale(k, v) == <<RMul(k, v[1]), RMul(k, v[2]), RMul(k, v[3])>>
V3Add(u, v) == <<RAdd(u[1], v[1]), RAdd(u[2], v[2]), RAdd(u[3], v[3])>>

\* ------------------------------------------------------------------------
\* cgmath::Matrix3: three columns x, y, z (column-major), m[c][r]
\* ------------------------------------------------------------------------
ORIGINAL_VIEWPORT_WIDTH == R(4)
ZOOM_SCROLL_FACTOR == R(40)

\* Matrix3::from_scale: homogeneous 2-D scale, diag(v, v, 1)
from_scale(v) ==
    << V3(v, R(0), R(0)), V3(R(0), v, R(0)), V3(R(0), R(0), R(1)) >>

\* Matrix3::from_translation: homogeneous 2-D translation
from_translation(v) ==
    << V3(R(1), R(0), R(0)), V3(R(0), R(1), R(0)), V3(v[1], v[2], R(1)) >>

\* Matrix3 * Vector3
MatVec(m, v) ==
    V3Add(V3Add(V3Scale(v[1], m[1]), V3Scale(v[2], m[2])), V3Scale(v[3], m[3]))

\* Matrix3 * Matrix3: column c of the product is a * b[c]
MatMul(a, b) == << MatVec(a, b[1]), MatVec(a, b[2]), MatVec(a, b[3]) >>

\* Matrix::transpose and Matrix::row
transpose(m) ==
    << V3(m[1][1], m[2][1], m[3][1]),
       V3(m[1][2], m[2][2], m[3][2]),
       V3(m[1][3], m[2][3], m[3][3]) >>

row(m, r) == V3(m[1][r + 1], m[2][r + 1], m[3][r + 1])

\* SquareMatrix::determinant
Det(m) ==
    RAdd(RSub(RMul(m[1][1], RSub(RMul(m[2][2], m[3][3]), RMul(m[3][2], m[2][3]))),
              RMul(m[2][1], RSub(RMul(m[1][2], m[3][3]), RMul(m[3][2], m[1][3])))),
         RMul(m[3][1], RSub(RMul(m[1][2], m[2][3]), RMul(m[2][2], m[1][3]))))

\* map_point: the transform applied to the homogeneous vector (x, y, 1)
map_point(m, p) ==
    LET v == MatVec(m, V3(p[1], p[2], R(1))) IN V2(v[1], v[2])

\* ------------------------------------------------------------------------
\* View (src/fractal_view.rs)
\* ------------------------------------------------------------------------
FractalTypes == {"Mandelbrot", "Newton"}

\* Variant of InitialTransform: the translation applied before the scale
InitialTransform_translate_first ==
    MatMul(from_translation(V2(Rat(-1, 4), R(0))), from_scale(R(2)))

\* The transform View::new and FractalCanvas::new both build
InitialTransform ==
    MatMul(from_scale(R(2)), from_translation(V2(Rat(-1, 4), R(0))))

\* View::entry_point_for_fractal_type
entry_point_for_fractal_type(fractal_type) ==
    IF fractal_type = "Mandelbrot" THEN "mandelbrot" ELSE "newton"

\* Variant of translate: the translation composed on the left
translate_on_the_left(self, displacement) ==
    [self EXCEPT !.view_transform =
        MatMul(from_translation(V2Scale(ORIGINAL_VIEWPORT_WIDTH, displacement)),
               self.view_transform)]

\* View::translate
translate(self, displacement) ==
    [self EXCEPT !.view_transform =
        MatMul(self.view_transform,
               from_translation(V2Scale(ORIGINAL_VIEWPORT_WIDTH, displacement)))]

\* Variant of zoom: the anchor scaled by the full width, not by half of it
zoom_about_full_width(self, factor, on_point) ==
    [self EXCEPT !.view_transform =
        MatMul(MatMul(MatMul(self.view_transform,
                             from_translation(V2Scale(ORIGINAL_VIEWPORT_WIDTH, on_point))),
                      from_scale(factor)),
               from_translation(V2Scale(RNeg(ORIGINAL_VIEWPORT_WIDTH), on_point)))]

zoom_without_return(self, factor, on_point) ==
    [self EXCEPT !.view_transform =
        MatMul(MatMul(self.view_transform,
                      from_translation(V2Scale(RDiv(ORIGINAL_VIEWPORT_WIDTH, R(2)),
                                               on_point))),
               from_scale(factor))]

\* View::zoom
zoom(self, factor, on_point) ==
    [self EXCEPT !.view_transform =
        MatMul(MatMul(MatMul(self.view_transform,
                             from_translation(V2Scale(RDiv(ORIGINAL_VIEWPORT_WIDTH, R(2)),
                                                      on_point))),
                      from_scale(factor)),
               from_translation(V2Scale(RDiv(RNeg(ORIGINAL_VIEWPORT_WIDTH), R(2)),
                                        on_point)))]

\* View::get_view_transform
get_view_transform(self) == self.view_transform

\* Variant of set_fractal_type: the View's transform reset with the pipeline
set_fractal_type_resetting(self, fractal_type) ==
    [self EXCEPT !.pipeline = entry_point_for_fractal_type(fractal_type),
                 !.view_transform = InitialTransform]

\* View::set_fractal_type: rebuilds the pipeline for the entry point
set_fractal_type(self, fractal_type) ==
    [self EXCEPT !.pipeline = entry_point_for_fractal_type(fractal_type)]

\* Variant of UniformFrom: the rows taken without the transpose
UniformFrom_untransposed(value) ==
    [ transform_1 |-> row(value, 0), _padding_1 |-> R(0),
      transform_2 |-> row(value, 1), _padding_2 |-> R(0),
      transform_3 |-> row(value, 2), _padding_3 |-> R(0) ]

\* impl From<Matrix3<f32>> for Uniform
UniformFrom(value) ==
    LET t == transpose(value)
    IN  [ transform_1 |-> row(t, 0), _padding_1 |-> R(0),
          transform_2 |-> row(t, 1), _padding_2 |-> R(0),
          transform_3 |-> row(t, 2), _padding_3 |-> R(0) ]

\* Uniform::default (Zeroable): the content of the buffer before any write
UniformDefault ==
    [ transform_1 |-> V3(R(0), R(0), R(0)), _padding_1 |-> R(0),
      transform_2 |-> V3(R(0), R(0), R(0)), _padding_2 |-> R(0),
      transform_3 |-> V3(R(0), R(0), R(0)), _padding_3 |-> R(0) ]

\* Variant of update_transform: nothing written to the uniform buffer
update_transform_skipped(self) == self

\* View::update_transform: writes the packed transform to the uniform buffer
update_transform(self) ==
    [self EXCEPT !.uniform_buffer = UniformFrom(self.view_transform)]

\* View::render: the pass that is recorded, its pipeline and bound uniform
render(self) == [pipeline |-> self.pipeline, uniform |-> self.uniform_buffer]

\* The shader's u.transform: a mat3x3<f32> in the uniform address space is
\* three column vectors, each at a stride of four floats.
ShaderTransform(u) == << u.transform_1, u.transform_2, u.transform_3 >>

\* ------------------------------------------------------------------------
\* Option values: <<>> is None, <<v>> is Some(v)
\* ------------------------------------------------------------------------
None == <<>>
Some(v) == <<v>>

\* ------------------------------------------------------------------------
\* Messages and canvas state (src/controls.rs)
\* ------------------------------------------------------------------------
Pan(x, y) == [kind |-> "Pan", x |-> x, y |-> y]
Zoom(y, on_point) == [kind |-> "Zoom", y |-> y, on_point |-> on_point]
UpdateViewTransform(m) == [kind |-> "UpdateViewTransform", view_transform |-> m]
FractalTypeSelected(t) == [kind |-> "FractalTypeSelected", fractal_type |-> t]

ModeNone == [kind |-> "None"]
Panning(p) == [kind |-> "Panning", start_position |-> p]

\* Rectangle::center
center(bounds) ==
    V2(RAdd(bounds.x, RDiv(bounds.width, R(2))),
       RAdd(bounds.y, RDiv(bounds.height, R(2))))

\* Option::unwrap_or
unwrap_or(opt, default) == IF opt = None THEN default ELSE opt[1]

CanvasUpdate_any_button(state, event, bounds, cursor) ==
    CASE event.kind \in {"CursorEntered", "CursorLeft"} ->
            [state |-> state, message |-> None]
      [] event.kind = "CursorMoved" ->
            IF state.kind = "None"
            THEN [state |-> ModeNone, message |-> None]
            ELSE [state |-> Panning(event.position),
                  message |-> Some(Pan(RSub(state.start_position[1], event.position[1]),
                                       RSub(event.position[2], state.start_position[2])))]
      [] event.kind = "ButtonPressed" ->
            IF cursor # None
            THEN [state |-> Panning(cursor[1]), message |-> None]
            ELSE [state |-> state, message |-> None]
      [] event.kind = "ButtonReleased" ->
            IF event.button = "Left"
            THEN [state |-> ModeNone, message |-> None]
            ELSE [state |-> state, message |-> None]
      [] event.kind = "WheelScrolled" ->
            [state |-> state,
             message |-> Some(Zoom(event.delta.y, unwrap_or(cursor, center(bounds))))]
      [] OTHER -> [state |-> state, message |-> None]

CanvasUpdate_keeping_start(state, event, bounds, cursor) ==
    CASE event.kind \in {"CursorEntered", "CursorLeft"} ->
            [state |-> state, message |-> None]
      [] event.kind = "CursorMoved" ->
            IF state.kind = "None"
            THEN [state |-> ModeNone, message |-> None]
            ELSE [state |-> state,
                  message |-> Some(Pan(RSub(state.start_position[1], event.position[1]),
                                       RSub(event.position[2], state.start_position[2])))]
      [] event.kind = "ButtonPressed" ->
            IF event.button = "Left" /\ cursor # None
            THEN [state |-> Panning(cursor[1]), message |-> None]
            ELSE [state |-> state, message |-> None]
      [] event.kind = "ButtonReleased" ->
            IF event.button = "Left"
            THEN [state |-> ModeNone, message |-> None]
            ELSE [state |-> state, message |-> None]
      [] event.kind = "WheelScrolled" ->
            [state |-> state,
             message |-> Some(Zoom(event.delta.y, unwrap_or(cursor, center(bounds))))]
      [] OTHER -> [state |-> state, message |-> None]

\* FractalCanvas::update (canvas::Program): the new canvas state and the
\* message, if any, for one mouse event
CanvasUpdate(state, event, bounds, cursor) ==
    CASE event.kind \in {"CursorEntered", "CursorLeft"} ->
            [state |-> state, message |-> None]
      [] event.kind = "CursorMoved" ->
            IF state.kind = "None"
            THEN [state |-> ModeNone, message |-> None]
            ELSE [state |-> Panning(event.position),
                  message |-> Some(Pan(RSub(state.start_position[1], event.position[1]),
                                       RSub(event.position[2], state.start_position[2])))]
      [] event.kind = "ButtonPressed" ->
            IF event.button = "Left" /\ cursor # None
            THEN [state |-> Panning(cursor[1]), message |-> None]
            ELSE [state |-> state, message |-> None]
      [] event.kind = "ButtonReleased" ->
            IF event.button = "Left"
            THEN [state |-> ModeNone, message |-> None]
            ELSE [state |-> state, message |-> None]
      [] event.kind = "WheelScrolled" ->
            [state |-> state,
             message |-> Some(Zoom(event.delta.y, unwrap_or(cursor, center(bounds))))]
      [] OTHER -> [state |-> state, message |-> None]

\* The widget tree of Controls::view for one event: the canvas sees the
\* mouse events, the pick list reports a selected option
WidgetMessages(state, event, bounds, cursor) ==
    IF event.kind = "OptionPicked"
    THEN [state |-> state, message |-> Some(FractalTypeSelected(event.option))]
    ELSE CanvasUpdate(state, event, bounds, cursor)

\* All queued events through the widget tree, in order
RECURSIVE ProcessEvents(_, _, _, _)
ProcessEvents(events, state, bounds, cursor) ==
    IF events = <<>>
    THEN [state |-> state, messages |-> <<>>]
    ELSE LET r == WidgetMessages(state, Head(events), bounds, cursor)
             rest == ProcessEvents(Tail(events), r.state, bounds, cursor)
         IN  [state |-> rest.state, messages |-> r.message \o rest.messages]

ControlsUpdate_keeping_snapshot(self, message) ==
    [ canvas |-> self.canvas,
      current_type |->
          IF message.kind = "FractalTypeSelected"
          THEN message.fractal_type ELSE self.current_type,
      last_message |-> Some(message) ]

\* Controls::update for one message
ControlsUpdate(self, message) ==
    [ canvas |->
          IF message.kind = "UpdateViewTransform"
          THEN [view_transform |-> message.view_transform] ELSE self.canvas,
      current_type |->
          IF message.kind = "FractalTypeSelected"
          THEN message.fractal_type ELSE self.current_type,
      last_message |-> Some(message) ]

RECURSIVE UpdateAll(_, _)
UpdateAll(self, messages) ==
    IF messages = <<>> THEN self
    ELSE UpdateAll(ControlsUpdate(self, Head(messages)), Tail(messages))

\* format!("{:.4}", v): v rounded to four decimals, ties to even, as the
\* number of ten-thousandths
Fixed4(v) ==
    LET scaled == v[1] * 10000
        q == scaled \div v[2]
        r == scaled % v[2]
    IN  IF 2 * r > v[2] THEN q + 1
        ELSE IF 2 * r < v[2] THEN q
        ELSE IF q % 2 = 0 THEN q ELSE q + 1

draw_without_negation(self, bounds, cursor) ==
    IF cursor = None THEN None
    ELSE LET cursor_position == cursor[1]
             transformed_position ==
                 MatVec(self.view_transform,
                        V3(RSub(RMul(RDiv(cursor_position[1], bounds.width), R(2)), R(1)),
                           RSub(RMul(RDiv(cursor_position[2], bounds.height), R(2)), R(1)),
                           R(1)))
         IN  Some([ re |-> Fixed4(transformed_position[1]),
                    im |-> Fixed4(transformed_position[2]) ])

\* FractalCanvas::draw: the text "{:.4}+{:.4}i" drawn for the cursor, if any
draw(self, bounds, cursor) ==
    IF cursor = None THEN None
    ELSE LET cursor_position == cursor[1]
             transformed_position ==
                 MatVec(self.view_transform,
                        V3(RSub(RMul(RDiv(cursor_position[1], bounds.width), R(2)), R(1)),
                           RSub(RMul(RDiv(cursor_position[2], bounds.height), R(2)), R(1)),
                           R(1)))
         IN  Some([ re |-> Fixed4(transformed_position[1]),
                    im |-> Fixed4(RNeg(transformed_position[2])) ])

\* ------------------------------------------------------------------------
\* Inputs of the environment
\* ------------------------------------------------------------------------
InitialSize == <<4, 4>>
ResizeSizes == {<<8, 4>>}
Positions == {V2(R(2), R(4)), V2(R(8), R(2))}
\* The sessions press and release the left button, the one the canvas acts on
Buttons == {"Left"}
ScrollDeltas ==
    { [unit |-> "Pixels", y |-> R(-40)],
      [unit |-> "Lines", y |-> R(-20)] }
SurfaceResults == {"Ok", "OutOfMemory", "Timeout"}

\* Arguments of direct calls of the View's methods
Displacements == {V2(Rat(1, 4), R(0)), V2(Rat(-1, 2), Rat(1, 4))}
Factors == {R(0), Rat(1, 2), R(2)}
Anchors == {V2(R(0), R(0)), V2(Rat(1, 2), Rat(-1, 4))}

\* ------------------------------------------------------------------------
\* State
\* ------------------------------------------------------------------------
VARIABLES
    view,               \* fractal_view: View (pipeline, uniform_buffer, view_transform)
    controls,           \* state.program(): Controls (canvas, current_type, last_message)
    mode,               \* the canvas' State.mode
    queued_events,      \* program::State: events queued by queue_event
    queued_messages,    \* program::State: messages queued by queue_message
    cursor_position,    \* main: cursor_position
    physical_size,      \* main: physical_size
    viewport,           \* main: viewport (its physical size)
    resized,            \* main: resized
    inner_size,         \* window.inner_size()
    redraw_requested,   \* window: a requested redraw is pending
    status,             \* "running", "exited" or "panicked"
    dispatched,         \* history: the last dispatch, the View's transform then
                        \* and the number of gestures applied by then
    emitted,            \* history: the Pan and Zoom messages the canvas emitted
    applied,            \* history: the calls of View::translate and View::zoom
    n_events,           \* history: number of window events delivered
    readout,            \* the coordinate text of the canvas's last draw
    storage,            \* wgsl_shader_test: the storage buffer of a kernel run
    handled,            \* history: the last event given to the canvas on its own
    drag                \* history: where the drag under way was pressed

vars == << view, controls, mode, queued_events, queued_messages, cursor_position,
           physical_size, viewport, resized, inner_size, redraw_requested, status,
           dispatched, emitted, applied, n_events, readout, storage,
           handled, drag >>

\* View::new, Controls::new, FractalCanvas::new and the locals of main
Startup ==
    /\ view = [ pipeline |-> entry_point_for_fractal_type("Mandelbrot"),
                uniform_buffer |-> UniformDefault,
                view_transform |-> InitialTransform ]
    /\ controls = [ canvas |-> [view_transform |-> InitialTransform],
                    current_type |-> "Mandelbrot",
                    last_message |-> None ]
    /\ mode = ModeNone
    /\ queued_events = <<>>
    /\ queued_messages = <<>>
    /\ cursor_position = V2(R(-1), R(-1))
    /\ inner_size = InitialSize
    /\ physical_size = InitialSize
    /\ viewport = InitialSize
    /\ resized = FALSE
    /\ redraw_requested = FALSE
    /\ status = "running"
    /\ dispatched = None
    /\ emitted = <<>>
    /\ applied = <<>>
    /\ n_events = 0
    /\ readout = None
    /\ handled = None
    /\ drag = None

Init ==
    /\ Startup
    /\ storage = None

\* ------------------------------------------------------------------------
\* Event::WindowEvent: main's own handling, then state.queue_event
\* ------------------------------------------------------------------------
CanDeliver ==
    /\ status = "running"
    /\ n_events < MaxEvents

queue_event(event) ==
    /\ queued_events' = Append(queued_events, event)
    /\ n_events' = n_events + 1

CursorMoved(position) ==
    /\ CanDeliver
    /\ cursor_position' = position
    /\ queue_event([kind |-> "CursorMoved", position |-> position])
    /\ UNCHANGED << view, controls, mode, queued_messages, physical_size, viewport,
                    resized, inner_size, redraw_requested, status, dispatched,
                    emitted, applied, readout, storage,
                    handled, drag >>

MouseInput(kind, button) ==
    /\ CanDeliver
    /\ queue_event([kind |-> kind, button |-> button])
    /\ UNCHANGED << view, controls, mode, queued_messages, cursor_position,
                    physical_size, viewport, resized, inner_size, redraw_requested,
                    status, dispatched, emitted, applied, readout, storage,
                    handled, drag >>

MouseWheel(delta) ==
    /\ CanDeliver
    /\ queue_event([kind |-> "WheelScrolled", delta |-> delta])
    /\ UNCHANGED << view, controls, mode, queued_messages, cursor_position,
                    physical_size, viewport, resized, inner_size, redraw_requested,
                    status, dispatched, emitted, applied, readout, storage,
                    handled, drag >>

\* A left click on an option of the open pick list
OptionPicked(option) ==
    /\ CanDeliver
    /\ queue_event([kind |-> "OptionPicked", option |-> option])
    /\ UNCHANGED << view, controls, mode, queued_messages, cursor_position,
                    physical_size, viewport, resized, inner_size, redraw_requested,
                    status, dispatched, emitted, applied, readout, storage,
                    handled, drag >>

Resized(size) ==
    /\ CanDeliver
    /\ inner_size' = size
    /\ resized' = TRUE
    /\ queue_event([kind |-> "Resized", size |-> size])
    /\ UNCHANGED << view, controls, mode, queued_messages, cursor_position,
                    physical_size, viewport, redraw_requested, status, dispatched,
                    emitted, applied, readout, storage,
                    handled, drag >>

CloseRequested ==
    /\ CanDeliver
    /\ status' = "exited"
    /\ queue_event([kind |-> "CloseRequested"])
    /\ UNCHANGED << view, controls, mode, queued_messages, cursor_position,
                    physical_size, viewport, resized, inner_size, redraw_requested,
                    dispatched, emitted, applied, readout, storage,
                    handled, drag >>

\* ------------------------------------------------------------------------
\* WindowEvent::RedrawRequested: redraw
\* ------------------------------------------------------------------------
request_redraw_dropped(pending) == pending

\* window.request_redraw: whether a redraw is pending after the call
request_redraw(pending) == TRUE

RedrawRequested(result) ==
    /\ status = "running"
    /\ viewport' = IF resized THEN inner_size ELSE viewport
    /\ resized' = FALSE
    /\ CASE result = "Ok" ->
              /\ view' = update_transform(view)
              /\ dispatched' = Some([ frame |-> render(view'),
                                      view_transform |-> view'.view_transform,
                                      n_applied |-> Len(applied) ])
              /\ redraw_requested' = FALSE
              /\ status' = status
         [] result = "OutOfMemory" ->
              /\ status' = "panicked"
              /\ redraw_requested' = FALSE
              /\ UNCHANGED << view, dispatched >>
         [] OTHER ->
              /\ redraw_requested' = request_redraw(FALSE)
              /\ UNCHANGED << view, dispatched, status >>
    /\ UNCHANGED << controls, mode, queued_events, queued_messages, cursor_position,
                    physical_size, inner_size, emitted, applied, n_events,
                    readout, storage,
                    handled, drag >>

\* ------------------------------------------------------------------------
\* Event::AboutToWait
\* ------------------------------------------------------------------------
\* program::State::is_queue_empty
is_queue_empty == queued_events = <<>> /\ queued_messages = <<>>

\* The displacement main passes to View::translate for Pan(x, y)
PanDisplacement(x, y, size) == V2(RDiv(x, R(size[1])), RDiv(y, R(size[2])))

\* The factor and the anchor main passes to View::zoom for Zoom(y, on_point)
ZoomFactor_without_offset(y) == RDiv(y, ZOOM_SCROLL_FACTOR)

ZoomFactor(y) == RAdd(RDiv(y, ZOOM_SCROLL_FACTOR), R(1))

ZoomAnchor(on_point, size) ==
    V2(RSub(RDiv(on_point[1], R(size[1])), Rat(1, 2)),
       RAdd(RDiv(RNeg(on_point[2]), R(size[2])), Rat(1, 2)))

IsGesture(message) == message.kind \in {"Pan", "Zoom"}

AboutToWait ==
    /\ status = "running"
    /\ ~is_queue_empty
    /\ LET bounds == [ x |-> R(0), y |-> R(0),
                       width |-> R(viewport[1]), height |-> R(viewport[2]) ]
           \* state.update: the events through the widgets, then every message,
           \* the widgets' first and the queued ones after them, through
           \* Controls::update
           ui == ProcessEvents(queued_events, mode, bounds, Some(cursor_position))
           messages == ui.messages \o queued_messages
           updated == UpdateAll(controls, messages)
           \* take_last_message
           taken == updated.last_message
       IN  /\ mode' = ui.state
           /\ queued_events' = <<>>
           /\ controls' = [updated EXCEPT !.last_message = None]
           \* state.update ends by drawing the interface
           /\ readout' = draw(updated.canvas, bounds, Some(cursor_position))
           /\ emitted' = emitted \o SelectSeq(ui.messages, IsGesture)
           /\ IF taken # None /\ taken[1].kind = "Pan"
              THEN LET displacement ==
                           PanDisplacement(taken[1].x, taken[1].y, physical_size)
                   IN  /\ view' = translate(view, displacement)
                       /\ queued_messages' =
                              << UpdateViewTransform(get_view_transform(view')) >>
                       /\ applied' = Append(applied,
                              [ op |-> "translate", message |-> taken[1],
                                displacement |-> displacement,
                                viewport |-> viewport ])
              ELSE IF taken # None /\ taken[1].kind = "Zoom"
              THEN LET factor == ZoomFactor(taken[1].y)
                       on_point == ZoomAnchor(taken[1].on_point, physical_size)
                   IN  /\ view' = zoom(view, factor, on_point)
                       /\ queued_messages' =
                              << UpdateViewTransform(get_view_transform(view')) >>
                       /\ applied' = Append(applied,
                              [ op |-> "zoom", message |-> taken[1],
                                factor |-> factor, on_point |-> on_point,
                                viewport |-> viewport ])
              ELSE IF taken # None /\ taken[1].kind = "FractalTypeSelected"
              THEN /\ view' = set_fractal_type(view, taken[1].fractal_type)
                   /\ queued_messages' = <<>>
                   /\ applied' = applied
              ELSE /\ queued_messages' = <<>>
                   /\ UNCHANGED << view, applied >>
    /\ redraw_requested' = request_redraw(redraw_requested)
    /\ UNCHANGED << cursor_position, physical_size, viewport, resized, inner_size,
                    status, dispatched, n_events, storage,
                    handled, drag >>

\* ------------------------------------------------------------------------
\* The event loop
\* ------------------------------------------------------------------------
Next ==
    \/ \E position \in Positions : CursorMoved(position)
    \/ \E kind \in {"ButtonPressed", "ButtonReleased"}, button \in Buttons :
           MouseInput(kind, button)
    \/ \E delta \in ScrollDeltas : MouseWheel(delta)
    \/ \E option \in FractalTypes : OptionPicked(option)
    \/ \E size \in ResizeSizes : Resized(size)
    \/ CloseRequested
    \/ \E result \in SurfaceResults : RedrawRequested(result)
    \/ AboutToWait

Spec == Init /\ [][Next]_vars

\* The event loop under the pointer events that make gestures, where a
\* requested redraw is delivered, and its frame acquired, eventually
LiveNext ==
    \/ \E position \in Positions : CursorMoved(position)
    \/ \E kind \in {"ButtonPressed", "ButtonReleased"}, button \in Buttons :
           MouseInput(kind, button)
    \/ \E delta \in ScrollDeltas : MouseWheel(delta)
    \/ CloseRequested
    \/ \E result \in SurfaceResults : RedrawRequested(result)
    \/ AboutToWait

LiveSpec ==
    /\ Init
    /\ [][LiveNext]_vars
    /\ WF_vars(redraw_requested /\ RedrawRequested("Ok"))

\* ------------------------------------------------------------------------
\* The View on its own: its methods called directly, with any arguments
\* ------------------------------------------------------------------------
loop_vars == << controls, mode, queued_events, queued_messages, cursor_position,
                physical_size, viewport, resized, inner_size, redraw_requested,
                status, emitted, n_events, readout, storage,
                handled, drag >>

ViewTranslate(displacement) ==
    /\ Len(applied) < MaxGestures
    /\ view' = translate(view, displacement)
    /\ applied' = Append(applied, [op |-> "translate", displacement |-> displacement])
    /\ UNCHANGED << dispatched, loop_vars >>

ViewZoom(factor, on_point) ==
    /\ Len(applied) < MaxGestures
    /\ view' = zoom(view, factor, on_point)
    /\ applied' = Append(applied,
           [op |-> "zoom", factor |-> factor, on_point |-> on_point])
    /\ UNCHANGED << dispatched, loop_vars >>

\* update_transform, then a pass that reads the uniform
ViewRender ==
    /\ view' = update_transform(view)
    /\ dispatched' = Some([ frame |-> render(view'),
                            view_transform |-> view'.view_transform,
                            n_applied |-> Len(applied) ])
    /\ UNCHANGED << applied, loop_vars >>

ViewNext ==
    \/ \E displacement \in Displacements : ViewTranslate(displacement)
    \/ \E factor \in Factors, on_point \in Anchors : ViewZoom(factor, on_point)
    \/ ViewRender

ViewSpec == Init /\ [][ViewNext]_vars

\* ------------------------------------------------------------------------
\* The kernels of shader/frag.wgsl, run one at a time by the compute entry
\* points of the tests on a storage buffer v
\* ------------------------------------------------------------------------
MaxIterations == 8

\* Complex numbers are vec2 (re, im)
add(a, b) == V2(RAdd(a[1], b[1]), RAdd(a[2], b[2]))

multiply(a, b) ==
    V2(RSub(RMul(a[1], b[1]), RMul(a[2], b[2])),
       RAdd(RMul(a[1], b[2]), RMul(a[2], b[1])))

squared_magnitude(a) == RAdd(RMul(a[1], a[1]), RMul(a[2], a[2]))

inv_without_conjugate(a) ==
    V2(RDiv(a[1], squared_magnitude(a)), RDiv(a[2], squared_magnitude(a)))

\* inverse(a) = conjugate(a) / squared_magnitude(a)
inv(a) ==
    V2(RDiv(a[1], squared_magnitude(a)), RDiv(RNeg(a[2]), squared_magnitude(a)))

\* z^3 - 1 and its derivative 3 z^2, coefficients ascending by degree
COEFFS == << V2(R(-1), R(0)), V2(R(0), R(0)), V2(R(0), R(0)), V2(R(1), R(0)) >>
DERIVATIVE_COEFFS ==
    << V2(R(0), R(0)), V2(R(0), R(0)), V2(R(3), R(0)), V2(R(0), R(0)) >>

RECURSIVE Horner(_, _, _)
Horner(point, coefficients, k) ==
    IF k = Len(coefficients) THEN coefficients[k]
    ELSE add(coefficients[k], multiply(point, Horner(point, coefficients, k + 1)))

eval_poly_descending(point, coefficients) ==
    Horner(point, [k \in 1..Len(coefficients) |->
                       coefficients[Len(coefficients) + 1 - k]], 1)

\* eval_poly: Horner's rule over the coefficients, ascending by degree
eval_poly(point, coefficients) == Horner(point, coefficients, 1)

\* The Mandelbrot kernel's f32 arithmetic, as fixed point with 12 binary
\* places and products rounded down
FxOne == 4096
ToFx(r) == (r[1] * FxOne) \div r[2]
FxMul(a, b) == (a * b) \div FxOne
FxSquaredMagnitude(z) == FxMul(z[1], z[1]) + FxMul(z[2], z[2])

\* z <- z^2 + c
MandelbrotStep(z, c) ==
    << FxMul(z[1], z[1]) - FxMul(z[2], z[2]) + c[1], 2 * FxMul(z[1], z[2]) + c[2] >>

EscapeCount_counting_up(i) == Rat(i, MaxIterations)

\* The normalized count of an escape after i iterations: the share of the
\* budget that is left, 1 for an immediate escape
EscapeCount(i) == Rat(MaxIterations - i, MaxIterations)

\* The loop of the kernel after i iterations: 0 when the budget is
\* exhausted, the normalized count when z has escaped
RECURSIVE MandelbrotLoop(_, _, _)
MandelbrotLoop(c, z, i) ==
    IF i = MaxIterations THEN R(0)
    ELSE IF FxSquaredMagnitude(z) > 4 * FxOne THEN EscapeCount(i)
    ELSE MandelbrotLoop(c, MandelbrotStep(z, c), i + 1)

mandelbrot_iterations(c) == MandelbrotLoop(<<ToFx(c[1]), ToFx(c[2])>>,
                                           <<ToFx(c[1]), ToFx(c[2])>>, 0)

\* The inputs written to the storage buffer
ShaderGrid == { R(-2), Rat(-1, 2), R(0), Rat(1, 2), R(2) }
ShaderInputs ==
    { V3(x, y, R(0)) : x \in ShaderGrid, y \in ShaderGrid }
        \cup { V3(Rat(1, 2), Rat(3, 5), R(0)), V3(Rat(-1, 2), Rat(13, 15), R(0)),
               V3(R(-2), Rat(3, 2), R(0)) }

\* GpuTestHarness::new: the input is written to the storage buffer
ShaderInit ==
    /\ Startup
    /\ \E input \in ShaderInputs :
           storage = Some([input |-> input, v |-> input, entry_point |-> "none"])

app_vars == << view, controls, mode, queued_events, queued_messages, cursor_position,
               physical_size, viewport, resized, inner_size, redraw_requested,
               status, dispatched, emitted, applied, n_events, readout,
               handled, drag >>

\* run_compute_shader: one dispatch of the entry point, which overwrites v
run_compute_shader(entry_point, result) ==
    /\ storage # None
    /\ storage[1].entry_point = "none"
    /\ storage' = Some([storage[1] EXCEPT !.v = result, !.entry_point = entry_point])
    /\ UNCHANGED app_vars

run_mandelbrot_iteration ==
    /\ storage # None
    /\ LET v == storage[1].v
           i == mandelbrot_iterations(V2(v[1], v[2]))
       IN  run_compute_shader("run_mandelbrot_iteration", V3(i, R(0), R(0)))

run_eval_poly ==
    /\ storage # None
    /\ LET v == storage[1].v
           result == eval_poly(V2(v[1], v[2]), COEFFS)
       IN  run_compute_shader("run_eval_poly", V3(result[1], result[2], R(0)))

run_eval_poly_df ==
    /\ storage # None
    /\ LET v == storage[1].v
           result == eval_poly(V2(v[1], v[2]), DERIVATIVE_COEFFS)
       IN  run_compute_shader("run_eval_poly_df", V3(result[1], result[2], R(0)))

\* inv is not defined at 0: the entry point is run on non-zero inputs only
run_inv ==
    /\ storage # None
    /\ LET v == storage[1].v
           result == inv(V2(v[1], v[2]))
       IN  /\ V2(v[1], v[2]) # V2(R(0), R(0))
           /\ run_compute_shader("run_inv", V3(result[1], result[2], R(0)))

ShaderNext ==
    \/ run_mandelbrot_iteration
    \/ run_eval_poly
    \/ run_eval_poly_df
    \/ run_inv

ShaderSpec == ShaderInit /\ [][ShaderNext]_vars

\* ------------------------------------------------------------------------
\* The canvas on its own: FractalCanvas::update called with any mouse event
\* and any cursor
\* ------------------------------------------------------------------------
MaxCalls == 4

CanvasPositions == Positions \cup { V2(R(0), R(1)) }
CanvasButtons == {"Left", "Right"}
CanvasEvents ==
    { [kind |-> "CursorEntered"], [kind |-> "CursorLeft"] }
        \cup { [kind |-> "CursorMoved", position |-> p] : p \in CanvasPositions }
        \cup { [kind |-> k, button |-> b] :
                   k \in {"ButtonPressed", "ButtonReleased"}, b \in CanvasButtons }
        \cup { [kind |-> "WheelScrolled", delta |-> [unit |-> "Lines", y |-> R(-20)]] }
CanvasCursors == { None } \cup { Some(p) : p \in Positions }
CanvasBounds ==
    [ x |-> R(0), y |-> R(0),
      width |-> R(InitialSize[1]), height |-> R(InitialSize[2]) ]

canvas_frame == << view, controls, queued_events, queued_messages, cursor_position,
                   physical_size, viewport, resized, inner_size, redraw_requested,
                   status, dispatched, applied, readout, storage >>

\* One call of FractalCanvas::update; drag remembers the accepted left press
\* and how many messages had been emitted before it
CanvasHandle(event, cursor) ==
    /\ n_events < MaxCalls
    /\ LET r == CanvasUpdate(mode, event, CanvasBounds, cursor)
       IN  /\ mode' = r.state
           /\ emitted' = emitted \o r.message
    /\ n_events' = n_events + 1
    /\ handled' = Some([event |-> event, cursor |-> cursor])
    /\ drag' = IF event.kind = "ButtonPressed" /\ event.button = "Left" /\ cursor # None
               THEN Some([pressed_at |-> cursor[1], from |-> Len(emitted)])
               ELSE IF event.kind = "ButtonReleased" /\ event.button = "Left"
               THEN None
               ELSE drag
    /\ UNCHANGED canvas_frame

CanvasNext == \E event \in CanvasEvents, cursor \in CanvasCursors : CanvasHandle(event, cursor)

CanvasSpec == Init /\ [][CanvasNext]_vars

\* ------------------------------------------------------------------------
\* Properties
\* ------------------------------------------------------------------------
Last(seq) == seq[Len(seq)]

\* A step that called View::translate / View::zoom
TranslateStep == Len(applied') = Len(applied) + 1 /\ Last(applied').op = "translate"
ZoomStep == Len(applied') = Len(applied) + 1 /\ Last(applied').op = "zoom"

Zero2 == V2(R(0), R(0))
Twice(p) == V2(RMul(R(2), p[1]), RMul(R(2), p[2]))

\* The operator of one applied gesture, written out entry by entry
\* (columns x, y, z): Translate(4 d), or the scale by f about the point 2 a
GestureOperator(g) ==
    IF g.op = "translate"
    THEN << V3(R(1), R(0), R(0)), V3(R(0), R(1), R(0)),
            V3(RMul(R(4), g.displacement[1]), RMul(R(4), g.displacement[2]), R(1)) >>
    ELSE << V3(g.factor, R(0), R(0)), V3(R(0), g.factor, R(0)),
            V3(RMul(RSub(R(1), g.factor), RMul(R(2), g.on_point[1])),
               RMul(RSub(R(1), g.factor), RMul(R(2), g.on_point[2])), R(1)) >>

\* Entry (row r, column c) of the product a b, as the sum over k of
\* a(r, k) b(k, c)
ProductEntry(a, b, r, c) ==
    RAdd(RAdd(RMul(a[1][r], b[c][1]), RMul(a[2][r], b[c][2])), RMul(a[3][r], b[c][3]))

ProductColumn(a, b, c) ==
    << ProductEntry(a, b, 1, c), ProductEntry(a, b, 2, c), ProductEntry(a, b, 3, c) >>

Product(a, b) ==
    << ProductColumn(a, b, 1), ProductColumn(a, b, 2), ProductColumn(a, b, 3) >>

\* Initial * M1 * ... * Mn, composed from the left in the order applied
RECURSIVE Composed(_, _)
Composed(t, gestures) ==
    IF gestures = <<>> THEN t
    ELSE Composed(Product(t, GestureOperator(Head(gestures))), Tail(gestures))

\* C1: every pan leaves view_transform equal to the old transform composed
\* on the right with Translate(4 d), entry by entry, and the transform is
\* always Initial * M1 * ... * Mn with the gestures' operators in the order
\* they were applied.
C1_PanComposesOnTheRight ==
    /\ [](view.view_transform = Composed(InitialTransform, applied))
    /\ [][TranslateStep =>
            LET t == view.view_transform
                d == Last(applied').displacement
                vx == RMul(R(4), d[1])
                vy == RMul(R(4), d[2])
            IN  \A r \in 1..3 :
                    /\ view'.view_transform[1][r] = t[1][r]
                    /\ view'.view_transform[2][r] = t[2][r]
                    /\ view'.view_transform[3][r] =
                           RAdd(RAdd(RMul(t[1][r], vx), RMul(t[2][r], vy)), t[3][r])
         ]_vars

\* C1 witness: a pan by a non-zero displacement was applied after another
\* gesture
C1_Witness ==
    /\ Len(applied) >= 2
    /\ Last(applied).op = "translate"
    /\ Last(applied).displacement # Zero2

\* C2 as stated: the zoom leaves the image of the anchor a itself unchanged
C2_AnchorItselfFixed ==
    [][ZoomStep =>
          map_point(view'.view_transform, Last(applied').on_point)
              = map_point(view.view_transform, Last(applied').on_point)
      ]_vars

\* C2 amended: the zoom leaves the image of the point 2 a unchanged, the
\* anchor a of [-0.5, 0.5]^2 expressed in the normalized device coordinates
\* [-1, 1]^2 that map_point takes
C2_AnchorInDeviceCoordinatesFixed ==
    [][ZoomStep =>
          map_point(view'.view_transform, Twice(Last(applied').on_point))
              = map_point(view.view_transform, Twice(Last(applied').on_point))
      ]_vars

\* C2 witness: a zoom by a factor other than 1 at an anchor off the centre
\* changed the transform
C2_Witness ==
    /\ applied # <<>>
    /\ Last(applied).op = "zoom"
    /\ Last(applied).factor \notin {R(0), R(1)}
    /\ Last(applied).on_point[1] # R(0)
    /\ Last(applied).on_point[2] # R(0)
    /\ view.view_transform # InitialTransform

\* C3: the view transform is invertible in every reachable state
C3_AlwaysInvertible == Det(view.view_transform) # R(0)

\* C4 as stated: the initial transform maps the screen centre to (-0.25, 0)
C4_CentreAtMinusQuarter ==
    applied = <<>> =>
        /\ map_point(view.view_transform, Zero2) = V2(Rat(-1, 4), R(0))
        /\ map_point(controls.canvas.view_transform, Zero2) = V2(Rat(-1, 4), R(0))

\* C4 amended: the initial transform, the same in the View and in the
\* canvas, maps the screen centre to (-0.5, 0)
C4_CentreAtMinusHalf ==
    applied = <<>> =>
        /\ controls.canvas.view_transform = view.view_transform
        /\ map_point(view.view_transform, Zero2) = V2(Rat(-1, 2), R(0))
        /\ map_point(controls.canvas.view_transform, Zero2) = V2(Rat(-1, 2), R(0))

\* C4 witness: a frame was rendered with the initial transform
C4_Witness ==
    /\ applied = <<>>
    /\ dispatched # None
    /\ dispatched[1].view_transform = view.view_transform

\* C5: at every dispatch the uniform bound to the pass is the packing of
\* the View's transform as it is at that redraw, which is the transform
\* left by the gestures applied before it
C5_PublishBeforeDispatch ==
    /\ [](dispatched # None =>
            dispatched[1].frame.uniform = UniformFrom(dispatched[1].view_transform))
    /\ [][dispatched' # dispatched =>
            /\ dispatched'[1].view_transform = view.view_transform
            /\ dispatched'[1].frame.uniform = UniformFrom(view.view_transform)
            /\ view'.uniform_buffer = dispatched'[1].frame.uniform
         ]_vars

\* C5 witness: a frame was dispatched after a gesture changed the transform
C5_Witness ==
    /\ dispatched # None
    /\ applied # <<>>
    /\ dispatched[1].view_transform = view.view_transform
    /\ view.view_transform # InitialTransform

\* The messages of the calls of View::translate and View::zoom, in order
AppliedMessages == [i \in 1..Len(applied) |-> applied[i].message]

\* C6: the gesture messages applied to the View are exactly the gesture
\* messages the canvas emitted, each once and in order
C6_EveryGestureAppliedOnce == AppliedMessages = emitted

\* C7: view_transform changes only in a step that calls View::translate or
\* View::zoom; set_fractal_type and update_transform leave it as it is
C7_OnlyPanAndZoomMutate ==
    /\ [](/\ \A t \in FractalTypes :
                set_fractal_type(view, t).view_transform = view.view_transform
          /\ update_transform(view).view_transform = view.view_transform)
    /\ [][view'.view_transform # view.view_transform => (TranslateStep \/ ZoomStep)]_vars

\* C7 witness: the fractal type was changed and a frame published after a
\* gesture, and the transform is still the gesture's
C7_Witness ==
    /\ view.pipeline = "newton"
    /\ applied # <<>>
    /\ view.view_transform # InitialTransform
    /\ view.view_transform = Composed(InitialTransform, applied)

\* C8: once every queued event and message has been processed the
\* pipeline's entry point is the one of the type shown in the pick list
C8_KernelFollowsSelection ==
    /\ view.pipeline \in {"mandelbrot", "newton"}
    /\ is_queue_empty =>
           view.pipeline = entry_point_for_fractal_type(controls.current_type)

\* Vectors the shader's product is tried on
TestVectors ==
    { V3(R(1), R(2), R(1)), V3(R(1), R(0), R(0)), V3(R(0), R(1), R(0)),
      V3(R(0), R(0), R(1)), V3(R(-3), Rat(1, 2), R(2)) }

\* Component r of t v as the sum over the columns c of t(r, c) v(c)
TransformedComponent(t, v, r) ==
    RAdd(RAdd(RMul(t[1][r], v[1]), RMul(t[2][r], v[2])), RMul(t[3][r], v[3]))

PaddingIsZero(u) ==
    u._padding_1 = R(0) /\ u._padding_2 = R(0) /\ u._padding_3 = R(0)

\* The shader's u.transform * v gives T v for the packing of the View's T
TransferredCorrectly(t, u) ==
    \A v \in TestVectors :
        LET out == MatVec(ShaderTransform(u), v)
        IN  \A r \in 1..3 : out[r] = TransformedComponent(t, v, r)

\* C9 as stated: the shader's product gives T v, the padding is 0 and the
\* three groups of the Uniform are the rows of T
C9_GroupsAreRows ==
    LET t == view.view_transform
        u == UniformFrom(t)
    IN  /\ TransferredCorrectly(t, u)
        /\ PaddingIsZero(u)
        /\ u.transform_1 = V3(t[1][1], t[2][1], t[3][1])
        /\ u.transform_2 = V3(t[1][2], t[2][2], t[3][2])
        /\ u.transform_3 = V3(t[1][3], t[2][3], t[3][3])

\* C9 amended: the shader's product gives T v, the padding is 0 and the
\* three groups of the Uniform are the columns of T
C9_GroupsAreColumns ==
    LET t == view.view_transform
        u == UniformFrom(t)
    IN  /\ TransferredCorrectly(t, u)
        /\ PaddingIsZero(u)
        /\ u.transform_1 = V3(t[1][1], t[1][2], t[1][3])
        /\ u.transform_2 = V3(t[2][1], t[2][2], t[2][3])
        /\ u.transform_3 = V3(t[3][1], t[3][2], t[3][3])

\* C9 witness: the published block packs a transform that is not symmetric,
\* so that rows and columns differ
C9_Witness ==
    /\ dispatched # None
    /\ view.uniform_buffer = UniformFrom(view.view_transform)
    /\ view.view_transform # transpose(view.view_transform)
    /\ applied # <<>>

\* C10: every displacement passed to View::translate is the Pan delta
\* divided by the width and height of the viewport at that gesture
C10_PanNormalisedByViewport ==
    \A i \in 1..Len(applied) :
        applied[i].op = "translate" =>
            applied[i].displacement =
                V2(RDiv(applied[i].message.x, R(applied[i].viewport[1])),
                   RDiv(applied[i].message.y, R(applied[i].viewport[2])))

\* Order of the rationals (denominators are positive)
RLe(a, b) == a[1] * b[2] <= b[1] * a[2]
RLt(a, b) == a[1] * b[2] < b[1] * a[2]

\* A cursor position inside a window of the given size
InsideWindow(position, size) ==
    /\ RLe(R(0), position[1]) /\ RLe(position[1], R(size[1]))
    /\ RLe(R(0), position[2]) /\ RLe(position[2], R(size[2]))

InUnitSquareAboutOrigin(a) ==
    /\ RLe(Rat(-1, 2), a[1]) /\ RLe(a[1], Rat(1, 2))
    /\ RLe(Rat(-1, 2), a[2]) /\ RLe(a[2], Rat(1, 2))

\* C11: every zoom made with the cursor inside the window as it is at that
\* gesture passes View::zoom an anchor of [-0.5, 0.5] x [-0.5, 0.5]
C11_AnchorInUnitSquare ==
    \A i \in 1..Len(applied) :
        (applied[i].op = "zoom"
            /\ InsideWindow(applied[i].message.on_point, applied[i].viewport))
        => InUnitSquareAboutOrigin(applied[i].on_point)

\* Screen points in normalized device coordinates
ScreenPoints ==
    { V2(R(-1), R(-1)), V2(R(0), R(0)), V2(R(1), R(1)), V2(Rat(1, 2), R(-1)) }

V2Sub(u, v) == <<RSub(u[1], v[1]), RSub(u[2], v[2])>>

\* map_point(t, p) - map_point(t, q)
Span(t, p, q) == V2Sub(map_point(t, p), map_point(t, q))

\* C12: a zoom for the scroll amount s is applied with the factor
\* f = s / 40 + 1 (stated as 40 f = s + 40), and whatever the anchor it
\* multiplies the span between any two screen points by exactly f
C12_ZoomScalesSpanByFactor ==
    /\ [](\A i \in 1..Len(applied) :
              applied[i].op = "zoom" =>
                  RMul(R(40), applied[i].factor) = RAdd(applied[i].message.y, R(40)))
    /\ [][ZoomStep =>
            \A p \in ScreenPoints, q \in ScreenPoints :
                Span(view'.view_transform, p, q)
                    = V2Scale(Last(applied').factor, Span(view.view_transform, p, q))
         ]_vars

\* C12 witness: a zoom by a factor other than 0 and 1 about an anchor off
\* the centre has been applied to a transform that a gesture had changed
C12_Witness ==
    /\ Len(applied) >= 2
    /\ Last(applied).op = "zoom"
    /\ Last(applied).factor \notin {R(0), R(1)}
    /\ Last(applied).on_point # Zero2
    /\ view.view_transform # InitialTransform

\* A step of state.update: the queued events and messages are consumed
UpdateStep ==
    /\ ~is_queue_empty
    /\ queued_events' = <<>>
    /\ n_events' = n_events
    /\ (queued_events # <<>> \/ queued_messages' # queued_messages)

\* The device coordinates (2 px / w - 1, 2 py / h - 1, 1) of a pixel
PixelToDevice(pixel, size) ==
    V3(RSub(RDiv(RMul(R(2), pixel[1]), R(size[1])), R(1)),
       RSub(RDiv(RMul(R(2), pixel[2]), R(size[2])), R(1)),
       R(1))

\* C13: the readout drawn for the cursor at pixel (px, py) in a canvas of
\* size (w, h) shows, to four decimals, the x of the snapshot transform
\* applied to (2 px / w - 1, 2 py / h - 1, 1) as the real part and the
\* negated y as the imaginary part
C13_ReadoutIsMappedPixel ==
    [][UpdateStep =>
          LET t == controls'.canvas.view_transform
              v == PixelToDevice(cursor_position, viewport)
          IN  readout' = Some([ re |-> Fixed4(TransformedComponent(t, v, 1)),
                                im |-> Fixed4(RNeg(TransformedComponent(t, v, 2))) ])
      ]_vars

\* C13 witness: a readout drawn from a snapshot that gestures have moved
\* off the real axis, with both parts non-zero
C13_Witness ==
    /\ readout # None
    /\ controls.canvas.view_transform # InitialTransform
    /\ controls.canvas.view_transform[3][2] # R(0)
    /\ readout[1].re # 0
    /\ readout[1].im # 0

\* A step that called View::translate or View::zoom
GestureStep == Len(applied') = Len(applied) + 1

\* The number of gestures applied by the time of the last rendered frame
RenderedGestures == IF dispatched = None THEN 0 ELSE dispatched[1].n_applied

\* C14: every applied pan or zoom leaves a redraw requested; while the
\* program runs and frames are acquired, a frame is eventually rendered with
\* the transform of that gesture or a newer one; and each rendered frame
\* carries the transform of all gestures applied so far, so that no frame
\* shows an older transform than the frame before it
C14_AppliedGestureIsRendered ==
    /\ [][GestureStep => redraw_requested']_vars
    /\ (RenderedGestures < Len(applied))
           ~> (status # "running" \/ RenderedGestures = Len(applied))
    /\ [][dispatched' # dispatched =>
            /\ dispatched'[1].n_applied = Len(applied)
            /\ dispatched'[1].view_transform = Composed(InitialTransform, applied)
            /\ dispatched'[1].frame.uniform = UniformFrom(dispatched'[1].view_transform)
            /\ dispatched'[1].n_applied >= RenderedGestures
         ]_vars

\* C14 witness: a frame rendered after two gestures, with the transform of
\* both, and no redraw left pending
C14_Witness ==
    /\ Len(applied) >= 2
    /\ RenderedGestures = Len(applied)
    /\ ~redraw_requested
    /\ status = "running"
    /\ dispatched[1].view_transform # InitialTransform

\* The complex number in the first two floats of a buffer value
Complex(v) == V2(v[1], v[2])

\* The k-th iterate of z <- z^2 + c from z = c
RECURSIVE Orbit(_, _)
Orbit(c, k) ==
    IF k = 0 THEN c
    ELSE LET z == Orbit(c, k - 1)
         IN  << (z[1] * z[1]) \div FxOne - (z[2] * z[2]) \div FxOne + c[1],
                2 * ((z[1] * z[2]) \div FxOne) + c[2] >>

\* Some iterate within the budget has a squared magnitude above 4
Escapes(input) ==
    LET c == <<ToFx(input[1]), ToFx(input[2])>>
    IN  \E k \in 0..(MaxIterations - 1) :
            LET z == Orbit(c, k)
            IN  (z[1] * z[1]) \div FxOne + (z[2] * z[2]) \div FxOne > 4 * FxOne

\* C15: the Mandelbrot kernel ends with a count of at most the budget's
\* iterations; the result is 0 exactly when no iterate within the budget has
\* a squared magnitude above 4, and positive otherwise; it is 0 for
\* (-0.5, 0.5) and positive for (0.5, 0.6)
C15_ZeroIffNeverEscaped ==
    /\ storage # None
    /\ storage[1].entry_point = "run_mandelbrot_iteration" =>
           LET input == storage[1].input
               i == storage[1].v[1]
           IN  /\ i \in { Rat(left, MaxIterations) : left \in 0..MaxIterations }
               /\ (i = R(0)) <=> ~Escapes(input)
               /\ Escapes(input) => RLt(R(0), i)
               /\ input = V3(Rat(-1, 2), Rat(1, 2), R(0)) => i = R(0)
               /\ input = V3(Rat(1, 2), Rat(3, 5), R(0)) => RLt(R(0), i)
               /\ storage[1].v[2] = R(0) /\ storage[1].v[3] = R(0)

\* C15 witness: the kernel has run on (0.5, 0.6), which escaped after some
\* iterations
C15_Witness ==
    /\ storage # None
    /\ storage[1].entry_point = "run_mandelbrot_iteration"
    /\ storage[1].input = V3(Rat(1, 2), Rat(3, 5), R(0))
    /\ storage[1].v[1] \notin {R(0), R(1)}

\* z^k
RECURSIVE Power(_, _)
Power(z, k) == IF k = 0 THEN V2(R(1), R(0)) ELSE multiply(z, Power(z, k - 1))

\* The sum over k of coefficients[k] z^k, the degrees counted from 0
RECURSIVE SumOfPowers(_, _, _)
SumOfPowers(z, coefficients, k) ==
    IF k > Len(coefficients) THEN V2(R(0), R(0))
    ELSE add(multiply(coefficients[k], Power(z, k - 1)),
             SumOfPowers(z, coefficients, k + 1))

RAbs(a) == <<Abs(a[1]), a[2]>>

\* C16: eval_poly is the sum of coefficients[k] z^k; with COEFFS it is
\* z^3 - 1, which is within 1/500 of (0, 0) at the rational point
\* (-1/2, 13/15) next to the root (-0.5, sqrt(3)/2); with DERIVATIVE_COEFFS
\* it is 3 z^2, which is (12, 0) at (2, 0)
C16_EvalPolyIsSumOfPowers ==
    /\ storage # None
    /\ storage[1].entry_point = "run_eval_poly" =>
           LET z == Complex(storage[1].input)
               result == Complex(storage[1].v)
           IN  /\ result = SumOfPowers(z, COEFFS, 1)
               /\ result = add(Power(z, 3), V2(R(-1), R(0)))
               /\ z = V2(Rat(-1, 2), Rat(13, 15)) =>
                      /\ RLt(RAbs(result[1]), Rat(1, 500))
                      /\ RLt(RAbs(result[2]), Rat(1, 500))
    /\ storage[1].entry_point = "run_eval_poly_df" =>
           LET z == Complex(storage[1].input)
               result == Complex(storage[1].v)
           IN  /\ result = SumOfPowers(z, DERIVATIVE_COEFFS, 1)
               /\ result = V2Scale(R(3), Power(z, 2))
               /\ z = V2(R(2), R(0)) => result = V2(R(12), R(0))

\* C16 witness: eval_poly has run with COEFFS on the point next to the root
C16_Witness ==
    /\ storage # None
    /\ storage[1].entry_point = "run_eval_poly"
    /\ storage[1].input = V3(Rat(-1, 2), Rat(13, 15), R(0))
    /\ Complex(storage[1].v) # V2(R(0), R(0))

\* C17: the product of inv(a) with a is (1, 0) for every non-zero a
C17_InverseTimesInputIsOne ==
    /\ storage # None
    /\ storage[1].entry_point = "run_inv" =>
           /\ Complex(storage[1].input) # V2(R(0), R(0))
           /\ multiply(Complex(storage[1].v), Complex(storage[1].input))
                  = V2(R(1), R(0))

\* C17 witness: inv has run on (-2, 1.5)
C17_Witness ==
    /\ storage # None
    /\ storage[1].entry_point = "run_inv"
    /\ storage[1].input = V3(R(-2), Rat(3, 2), R(0))
    /\ Complex(storage[1].v) = V2(Rat(-8, 25), Rat(-6, 25))

\* A step of state.update that processes the UpdateViewTransform queued by
\* the zoom applied last, with the cursor still at the pixel of that zoom
\* and the viewport as it was
ZoomSnapshotStep ==
    /\ UpdateStep
    /\ queued_messages # <<>>
    /\ applied # <<>>
    /\ Last(applied).op = "zoom"
    /\ cursor_position = Last(applied).message.on_point
    /\ viewport = Last(applied).viewport
    /\ InsideWindow(cursor_position, viewport)

\* C19: once a zoom made with the cursor at c and its UpdateViewTransform
\* have been processed, the readout drawn for c is the one that was drawn
\* for c before the zoom
C19_ReadoutAtCursorPreserved ==
    [][ZoomSnapshotStep => readout' = readout]_vars

\* C20: the canvas's snapshot equals the View's transform at the start and
\* whenever no event and no message is queued, and every applied pan or
\* zoom queues an UpdateViewTransform with the View's transform after it
C20_SnapshotFollowsView ==
    /\ [](is_queue_empty =>
            controls.canvas.view_transform = view.view_transform)
    /\ [][GestureStep =>
            queued_messages' = << UpdateViewTransform(view'.view_transform) >>
         ]_vars

\* C20 witness: two gestures have been applied and everything queued has
\* been processed, leaving the snapshot at the View's moved transform
C20_Witness ==
    /\ is_queue_empty
    /\ Len(applied) >= 2
    /\ view.view_transform # InitialTransform
    /\ controls.canvas.view_transform = view.view_transform

\* A call of FractalCanvas::update on its own, and the messages it emitted
CanvasStep == n_events' = n_events + 1 /\ handled' # None
NewlyEmitted == SubSeq(emitted', Len(emitted) + 1, Len(emitted'))

IsLeft(event, kind) == event.kind = kind /\ event.button = "Left"

\* C21: a Pan is emitted only by a CursorMoved met in mode Panning; Panning
\* is entered only by a left press with a cursor position and left only by a
\* left release; a CursorMoved in mode None emits nothing; a press or release
\* of another button, CursorEntered, CursorLeft and a wheel scroll leave the
\* mode as it was
C21_PanOnlyWhilePanning ==
    [][CanvasStep =>
          LET event == handled'[1].event
              cursor == handled'[1].cursor
          IN  /\ (\E i \in 1..Len(NewlyEmitted) : NewlyEmitted[i].kind = "Pan")
                     => (mode.kind = "Panning" /\ event.kind = "CursorMoved")
              /\ (mode.kind = "None" /\ mode'.kind = "Panning")
                     => (IsLeft(event, "ButtonPressed") /\ cursor # None)
              /\ (mode.kind = "Panning" /\ mode'.kind = "None")
                     => IsLeft(event, "ButtonReleased")
              /\ (event.kind = "CursorMoved" /\ mode.kind = "None")
                     => (NewlyEmitted = <<>> /\ mode' = mode)
              /\ (event.kind \in {"ButtonPressed", "ButtonReleased"}
                      /\ event.button # "Left")
                     => mode' = mode
              /\ event.kind \in {"CursorEntered", "CursorLeft", "WheelScrolled"}
                     => mode' = mode
      ]_vars

\* C21 witness: during a drag that has emitted a Pan the canvas was given a
\* press of the right button and is still Panning
C21_Witness ==
    /\ mode.kind = "Panning"
    /\ \E i \in 1..Len(emitted) : emitted[i].kind = "Pan"
    /\ handled # None
    /\ handled[1].event.kind = "ButtonPressed"
    /\ handled[1].event.button = "Right"

\* The Pan messages of a sequence of messages, and their component-wise sum
IsPan(message) == message.kind = "Pan"

RECURSIVE SumOfPans(_)
SumOfPans(messages) ==
    IF messages = <<>> THEN V2(R(0), R(0))
    ELSE V2(RAdd(Head(messages).x, SumOfPans(Tail(messages))[1]),
            RAdd(Head(messages).y, SumOfPans(Tail(messages))[2]))

PansOfDrag == SelectSeq(SubSeq(emitted, drag[1].from + 1, Len(emitted)), IsPan)

\* C22: a CursorMoved to pos during a drag emits
\* Pan(start.x - pos.x, pos.y - start.y) and makes pos the start position,
\* and the Pan deltas emitted since the left press at p0 add up to
\* (p0.x - pn.x, pn.y - p0.y) for the position pn reached last
C22_PanDeltasTelescope ==
    /\ [][(CanvasStep /\ handled'[1].event.kind = "CursorMoved"
                /\ mode.kind = "Panning") =>
            LET pos == handled'[1].event.position
            IN  /\ NewlyEmitted = << Pan(RSub(mode.start_position[1], pos[1]),
                                         RSub(pos[2], mode.start_position[2])) >>
                /\ mode' = Panning(pos)
         ]_vars
    /\ [](drag # None =>
            /\ mode.kind = "Panning"
            /\ SumOfPans(PansOfDrag)
                   = V2(RSub(drag[1].pressed_at[1], mode.start_position[1]),
                        RSub(mode.start_position[2], drag[1].pressed_at[2])))

\* C22 witness: a drag with at least two moves, through an intermediate
\* position other than its ends, that has come away from where it was pressed
C22_Witness ==
    /\ drag # None
    /\ Len(PansOfDrag) >= 2
    /\ mode.start_position # drag[1].pressed_at
    /\ PansOfDrag[1] # Pan(R(0), R(0))
    /\ PansOfDrag[2] # Pan(R(0), R(0))

\* The results of get_current_texture that are errors
SurfaceErrors == SurfaceResults \ {"Ok"}

\* C23: a redraw whose frame acquisition fails leaves the View, its uniform
\* buffer included, and the last dispatch as they were; on OutOfMemory the
\* program panics, on any other error it keeps running with a redraw
\* requested
C23_FailedAcquisitionRendersNothing ==
    [][\A result \in SurfaceErrors :
           RedrawRequested(result) =>
               /\ view' = view
               /\ dispatched' = dispatched
               /\ result = "OutOfMemory" => status' = "panicked"
               /\ result # "OutOfMemory" => (status' = "running" /\ redraw_requested')
      ]_vars

\* C23 witness: after a resize and a gesture the only redraw so far failed
\* to acquire its frame: the surface is reconfigured, nothing was published
\* or dispatched, and the redraw is requested again
C23_Witness ==
    /\ status = "running"
    /\ viewport # InitialSize
    /\ ~resized
    /\ dispatched = None
    /\ view.uniform_buffer = UniformDefault
    /\ applied # <<>>
    /\ is_queue_empty
    /\ redraw_requested

\* A zoom that follows a zoom at the same anchor, with the transform before
\* the two of them on record in the last rendered frame
SecondZoomStep ==
    /\ ZoomStep
    /\ applied # <<>>
    /\ Last(applied).op = "zoom"
    /\ Last(applied).on_point = Last(applied').on_point
    /\ dispatched # None
    /\ dispatched[1].n_applied = Len(applied) - 1

\* C24: a zoom by f and then a zoom by g at the same anchor a leave the
\* transform of one zoom by f g at a, which is the transform before them
\* times the scale by f g about 2 a; when f g = 1 they restore it
C24_ZoomsComposeMultiplicatively ==
    [][SecondZoomStep =>
          LET before == dispatched[1].view_transform
              a == Last(applied').on_point
              fg == RMul(Last(applied).factor, Last(applied').factor)
          IN  /\ view'.view_transform
                     = zoom([view EXCEPT !.view_transform = before], fg, a).view_transform
              /\ view'.view_transform
                     = Product(before, GestureOperator(
                           [op |-> "zoom", factor |-> fg, on_point |-> a]))
              /\ fg = R(1) => view'.view_transform = before
      ]_vars

\* C24 witness: a transform that a gesture had moved was rendered, zoomed by
\* f and then by 1/f at one anchor off the centre, and is what it was
C24_Witness ==
    /\ Len(applied) >= 3
    /\ dispatched # None
    /\ dispatched[1].n_applied = Len(applied) - 2
    /\ Last(applied).op = "zoom"
    /\ applied[Len(applied) - 1].op = "zoom"
    /\ Last(applied).on_point = applied[Len(applied) - 1].on_point
    /\ Last(applied).on_point[1] # R(0)
    /\ Last(applied).on_point[2] # R(0)
    /\ Last(applied).factor # R(1)
    /\ RMul(Last(applied).factor, applied[Len(applied) - 1].factor) = R(1)
    /\ view.view_transform = dispatched[1].view_transform
    /\ view.view_transform # InitialTransform

====
